---------------------------- MODULE Spec2Model ----------------------------
(***************************************************************************)
(* pprof-adv: the CPU profile analysis of pb/pprof.go.                     *)
(*                                                                         *)
(* AnalyzeCPUProfile is modelled as a state machine whose steps are the    *)
(* statements of the function: the nil check and buildFunctionInfoMap,     *)
(* the search of the CPU column, the summation of the column, one step per *)
(* sample of the processing loop (stack resolution followed by the whole   *)
(* call of updateFunctionNodes), and the return.                           *)
(*                                                                         *)
(* Go strings are sequences of one-character strings, so that ToLower,     *)
(* Contains and HasPrefix are computed.  Go slices are 0-based and TLA+     *)
(* sequences 1-based: At(s, i) is s[i] of the source.  int64 is modelled   *)
(* as a two's complement integer of IntBits bits.  float64 is modelled as  *)
(* an exact rational [num, den] in lowest terms.                           *)
(***************************************************************************)
EXTENDS Integers, Sequences, FiniteSets, TLC

VARIABLES
    profile,        \* p *Profile: the input, Nil or a decoded profile
    attrCPU,        \* attrCPU bool: the input flag
    pc,             \* position in AnalyzeCPUProfile
    funcInfoMap,    \* funcInfoMap: function id -> FunctionInfo
    cpuIdx,         \* cpuIdx
    totalCPU,       \* totalCPU int64
    idx,            \* 0-based index of the next sample of the processing loop
    functionNodes,  \* functionNodes map[string]*FunctionNode
    ret,            \* the returned pair [nodes, err]
    asked,          \* history: the names shouldAttrFn was called with
    times,          \* history: the cpuTime of each sample that has a CPU value
    calls,          \* history: the [stack, cpuTime] of each updateFunctionNodes call
    prev            \* history: functionNodes before the latest updateFunctionNodes call

vars == <<profile, attrCPU, pc, funcInfoMap, cpuIdx, totalCPU, idx,
          functionNodes, ret, asked, times, calls, prev>>

----------------------------------------------------------------------------
(* Bounds of the model *)

\* largest number of samples of a generated profile
MaxSamples == 2
\* largest number of location ids of a generated sample
MaxStack == 3
\* largest number of value columns of a generated sample
MaxCols == 2
\* width in bits of the model's int64
IntBits == 29

----------------------------------------------------------------------------
(* Values *)

\* a pointer (or a map, a reference type) is Nil or Ref(x)
Nil == <<>>
Ref(x) == <<x>>
Deref(ptr) == ptr[1]

\* the nil error
NoErr == "nil"

At(s, i) == s[i + 1]
InRange(s, i) == i >= 0 /\ i < Len(s)

Pow2(n) == 2 ^ n
MinInt == 0 - Pow2(IntBits - 1)
MaxInt == Pow2(IntBits - 1) - 1

\* int64 addition: the result wraps around
WrapAdd(a, b) == ((a + b + Pow2(IntBits - 1)) % Pow2(IntBits)) - Pow2(IntBits - 1)

Abs(x) == IF x < 0 THEN 0 - x ELSE x

RECURSIVE GCD(_, _)
GCD(a, b) == IF b = 0 THEN a ELSE GCD(b, a % b)

\* the rational n/d (d # 0) in lowest terms with a positive denominator
Rat(n, d) ==
    LET g == GCD(Abs(n), Abs(d))
        s == IF d < 0 THEN 0 - 1 ELSE 1
    IN  [num |-> s * (n \div g), den |-> Abs(d) \div g]

Zero == [num |-> 0, den |-> 1]

RAdd(x, y) ==
    LET l == (x.den \div GCD(x.den, y.den)) * y.den
    IN  Rat(x.num * (l \div x.den) + y.num * (l \div y.den), l)

RMulInt(x, k) ==
    LET g == GCD(Abs(k), x.den)
    IN  Rat(x.num * (k \div g), x.den \div g)

RLeq(x, y) == x.num * y.den <= y.num * x.den
RLess(x, y) == x.num * y.den < y.num * x.den
RInt(k) == [num |-> k, den |-> 1]

----------------------------------------------------------------------------
(* Strings *)

UpperCase == <<"A", "B", "C", "D", "E", "F", "G", "H", "I", "J", "K", "L", "M",
               "N", "O", "P", "Q", "R", "S", "T", "U", "V", "W", "X", "Y", "Z">>
LowerCase == <<"a", "b", "c", "d", "e", "f", "g", "h", "i", "j", "k", "l", "m",
               "n", "o", "p", "q", "r", "s", "t", "u", "v", "w", "x", "y", "z">>

\* strings.ToLower
ToLower(s) ==
    [i \in 1..Len(s) |->
        IF \E k \in 1..Len(UpperCase) : UpperCase[k] = s[i]
        THEN LowerCase[CHOOSE k \in 1..Len(UpperCase) : UpperCase[k] = s[i]]
        ELSE s[i]]

\* strings.Contains
Contains(s, substr) ==
    \E k \in 0..(Len(s) - Len(substr)) :
        \A j \in 1..Len(substr) : s[k + j] = substr[j]

\* strings.HasPrefix
HasPrefix(s, prefix) ==
    /\ Len(s) >= Len(prefix)
    /\ \A j \in 1..Len(prefix) : s[j] = prefix[j]

sEmpty == <<>>
sSamples == <<"s", "a", "m", "p", "l", "e", "s">>
sCpu == <<"c", "p", "u">>
sNanoseconds == <<"n", "a", "n", "o", "s", "e", "c", "o", "n", "d", "s">>
sMain == <<"m", "a", "i", "n">>
sFoo == <<"f", "o", "o">>
sBar == <<"b", "a", "r">>
sCPUTime == <<"C", "P", "U", "-", "t", "i", "m", "e">>
sRuntimeNew == <<"r", "u", "n", "t", "i", "m", "e", ".", "n", "e", "w">>
sUtilGo == <<"u", "t", "i", "l", ".", "g", "o">>
sRuntime == <<"r", "u", "n", "t", "i", "m", "e">>
sFmt == <<"f", "m", "t">>

\* the package paths of the standard library that packages.Load returns
StdPkgs == {sRuntime, sFmt}

\* shouldAttrFn: is the function of a standard library package
shouldAttrFn(funcName) ==
    \E pkg \in StdPkgs : HasPrefix(funcName, pkg \o <<".">>)

----------------------------------------------------------------------------
(* The decoded profile *)

\* StringTable of TestAnalyzeCPUProfile, followed by four more strings
StringTable ==
    <<sEmpty, sSamples, sCpu, sNanoseconds, sMain, sFoo, sBar,
      sCPUTime, sRuntimeNew, sUtilGo>>

\* an index past the end of StringTable
TooLarge == Len(StringTable)

Fn(id, name, filename) == [Id |-> id, Name |-> name, Filename |-> filename]
Loc(id, fids) == [Id |-> id, Line |-> [k \in 1..Len(fids) |-> [FunctionId |-> fids[k]]]]

\* Function of TestAnalyzeCPUProfile (ids 1 to 3), followed by: runtime.new, a
\* function whose name index is too large, a second function named main of
\* another file, a function named foo whose file name index is too large
BaseFunction ==
    <<Fn(1, 4, 0), Fn(2, 5, 0), Fn(3, 6, 0), Fn(4, 8, 0),
      Fn(5, TooLarge, 0), Fn(6, 4, 9), Fn(7, 5, TooLarge)>>

NegNameFunction == Fn(8, 0 - 1, 0)
NegFileFunction == Fn(9, 4, 0 - 1)

\* Location of TestAnalyzeCPUProfile (ids 1 to 3), followed by: runtime.new,
\* the function whose name index is too large, a location without lines, a
\* location of a function id that no Function has, a location with an inlined
\* second line, a location of foo with the missing file name, and a second
\* location of id 1.  No location has id 11.
BaseLocation ==
    <<Loc(1, <<1>>), Loc(2, <<2>>), Loc(3, <<3>>), Loc(4, <<4>>),
      Loc(5, <<5>>), Loc(6, <<>>), Loc(7, <<10>>), Loc(8, <<6, 2>>),
      Loc(9, <<7>>), Loc(1, <<3>>)>>

DanglingId == Len(BaseLocation) + 1

ValueType(type, unit) == [Type |-> type, Unit |-> unit]
Sample(locationId, value) == [LocationId |-> locationId, Value |-> value]

Profile(sampleType, sample, function) ==
    [StringTable |-> StringTable, SampleType |-> sampleType, Sample |-> sample,
     Location |-> BaseLocation, Function |-> function]

\* SampleType of TestAnalyzeCPUProfile
TestSampleType == <<ValueType(1, 2), ValueType(2, 3)>>

\* the profile of TestAnalyzeCPUProfile
TestProfile ==
    [StringTable |-> SubSeq(StringTable, 1, 7),
     SampleType |-> TestSampleType,
     Function |-> SubSeq(BaseFunction, 1, 3),
     Location |-> SubSeq(BaseLocation, 1, 3),
     Sample |-> <<Sample(<<1, 2>>, <<13, 130000000>>),
                  Sample(<<1, 3>>, <<7, 70000000>>)>>]

\* the sequences over S of length at most n
SeqUpTo(S, n) == UNION {[1..k -> S] : k \in 0..n}

----------------------------------------------------------------------------
(* pb/pprof.go *)

\* buildFunctionInfoMap indexes StringTable with a negative index: p.StringTable[fn.Name]
\* is guarded by fn.Name < len only, and so is p.StringTable[fn.Filename]
buildFunctionInfoMapPanics(p) ==
    \E k \in 1..Len(p.Function) :
        LET fn == p.Function[k]
        IN  /\ fn.Name < Len(p.StringTable)
            /\ fn.Name < 0 \/ (fn.Filename < Len(p.StringTable) /\ fn.Filename < 0)

\* the FunctionInfo of one function that passed the guard of its name
FunctionInfoOf(p, fn) ==
    [Name |-> At(p.StringTable, fn.Name),
     FileName |-> IF fn.Filename < Len(p.StringTable)
                  THEN At(p.StringTable, fn.Filename)
                  ELSE sEmpty]

\* buildFunctionInfoMap: a later function of the same id replaces the earlier
buildFunctionInfoMap(p) ==
    LET kept == {k \in 1..Len(p.Function) : p.Function[k].Name < Len(p.StringTable)}
        ids == {p.Function[k].Id : k \in kept}
        last(id) == CHOOSE k \in kept :
                        /\ p.Function[k].Id = id
                        /\ \A j \in kept : p.Function[j].Id = id => j <= k
    IN  [id \in ids |-> FunctionInfoOf(p, p.Function[last(id)])]

\* findLocation: the first location of that id, or Nil
findLocation(p, id) ==
    IF \E k \in 1..Len(p.Location) : p.Location[k].Id = id
    THEN Ref(p.Location[CHOOSE k \in 1..Len(p.Location) :
                            /\ p.Location[k].Id = id
                            /\ \A j \in 1..(k - 1) : p.Location[j].Id # id])
    ELSE Nil

\* AppendFrame keeping a frame without a name where the location id does not
\* resolve, so that no sample is skipped
AppendFrameOrUnknown(p, infoMap, stack, id) ==
    LET loc == findLocation(p, id)
        fid == At(Deref(loc).Line, 0).FunctionId
    IN  IF loc = Nil \/ Len(Deref(loc).Line) = 0
        THEN Append(stack, [Name |-> sEmpty, FileName |-> sEmpty])
        ELSE IF fid \in DOMAIN infoMap
             THEN Append(stack, [Name |-> infoMap[fid].Name,
                                 FileName |-> infoMap[fid].FileName])
             ELSE Append(stack, [Name |-> sEmpty, FileName |-> sEmpty])

\* the body of the loop that builds the stack trace, for the location id at
\* 0-based index i: the stack with the frame appended, or unchanged
AppendFrame(p, infoMap, stack, id) ==
    LET loc == findLocation(p, id)
        fid == At(Deref(loc).Line, 0).FunctionId
    IN  IF loc = Nil \/ Len(Deref(loc).Line) = 0
        THEN stack
        ELSE IF fid \in DOMAIN infoMap
             THEN Append(stack, [Name |-> infoMap[fid].Name,
                                 FileName |-> infoMap[fid].FileName])
             ELSE stack

\* the loop that builds the stack trace: i runs from len(LocationId)-1 down to 0
RECURSIVE BuildStackFrom(_, _, _, _, _)
BuildStackFrom(p, infoMap, locationId, i, stack) ==
    IF i < 0 THEN stack
    ELSE BuildStackFrom(p, infoMap, locationId, i - 1,
                        AppendFrame(p, infoMap, stack, At(locationId, i)))

\* BuildStack with i running from 0 up to len(LocationId)-1: no reversal
RECURSIVE BuildStackUpFrom(_, _, _, _, _)
BuildStackUpFrom(p, infoMap, locationId, i, stack) ==
    IF i >= Len(locationId) THEN stack
    ELSE BuildStackUpFrom(p, infoMap, locationId, i + 1,
                          AppendFrame(p, infoMap, stack, At(locationId, i)))

BuildStackNotReversed(p, infoMap, locationId) ==
    BuildStackUpFrom(p, infoMap, locationId, 0, <<>>)

BuildStack(p, infoMap, locationId) ==
    BuildStackFrom(p, infoMap, locationId, Len(locationId) - 1, <<>>)

\* &FunctionNode{Name: entry.Name, FileName: entry.FileName, Children: make(...)}
NewNode(entry) ==
    [Name |-> entry.Name, FileName |-> entry.FileName,
     SelfAttrCPU |-> Zero, SelfCPU |-> Zero, TotalCPU |-> Zero,
     Children |-> <<>>, ParentCount |-> 0]

\* IsLeaf taking the root, index 0, for the leaf
IsRoot(stack, i) == i = 0

\* i == len(stack)-1
IsLeaf(stack, i) == i = Len(stack) - 1

\* IsLeafParent holding of every frame that has a callee: i <= len(stack)-2
IsAnyCaller(stack, i) == i <= Len(stack) - 2

\* i == len(stack)-2
IsLeafParent(stack, i) == i = Len(stack) - 2

\* i < len(stack)-1
HasChild(stack, i) == i < Len(stack) - 1

\* nodes[name] as a pointer: the key of the node, or Nil when the map has none
NodeRef(nodes, name) == IF name \in DOMAIN nodes THEN Ref(name) ELSE Nil

\* the name that attrCPU && shouldAttrFn(childFuncName) passes to shouldAttrFn
\* at index i, as a set: && does not evaluate its right side when attrCPU is false
AskedAt(stack, i, attr) ==
    IF IsLeafParent(stack, i) /\ attr THEN {At(stack, i + 1).Name} ELSE {}

\* node.ParentCount++; node.TotalCPU += cpuTime
AddTotal(node, cpuTime) ==
    [node EXCEPT !.ParentCount = @ + 1, !.TotalCPU = RAdd(@, cpuTime)]

\* AddSelf without node.SelfAttrCPU += cpuTime
AddSelfCPUOnly(node, stack, i, cpuTime) ==
    IF i = Len(stack) - 1
    THEN [node EXCEPT !.SelfCPU = RAdd(@, cpuTime)]
    ELSE node

\* node.SelfCPU += cpuTime; node.SelfAttrCPU += cpuTime, for the leaf
AddSelf(node, stack, i, cpuTime) ==
    IF IsLeaf(stack, i)
    THEN [node EXCEPT !.SelfCPU = RAdd(@, cpuTime), !.SelfAttrCPU = RAdd(@, cpuTime)]
    ELSE node

\* AddAttr attributing at the leaf itself instead of at its caller
AddAttrAtLeaf(node, stack, i, cpuTime, attr) ==
    IF i = Len(stack) - 1 /\ attr /\ shouldAttrFn(At(stack, i).Name)
    THEN [node EXCEPT !.SelfAttrCPU = RAdd(@, cpuTime)]
    ELSE node

\* node.SelfAttrCPU += cpuTime, for the caller of a leaf that shouldAttrFn accepts
AddAttr(node, stack, i, cpuTime, attr) ==
    IF IsLeafParent(stack, i) /\ attr /\ shouldAttrFn(At(stack, i + 1).Name)
    THEN [node EXCEPT !.SelfAttrCPU = RAdd(@, cpuTime)]
    ELSE node

\* node.Children[childEntry.Name] = nodes[childEntry.Name], unless the key exists
AddChild(node, nodes, stack, i) ==
    IF HasChild(stack, i) /\ At(stack, i + 1).Name \notin DOMAIN node.Children
    THEN [node EXCEPT !.Children =
            @ @@ (At(stack, i + 1).Name :> NodeRef(nodes, At(stack, i + 1).Name))]
    ELSE node

\* GetOrCreate storing the file name of the entry in a node that exists already
GetOrCreateLastWins(nodes, entry) ==
    IF entry.Name \in DOMAIN nodes
    THEN [nodes EXCEPT ![entry.Name].FileName = entry.FileName]
    ELSE nodes @@ (entry.Name :> NewNode(entry))

\* nodes[entry.Name], created when the map has none
GetOrCreate(nodes, entry) ==
    IF entry.Name \in DOMAIN nodes THEN nodes ELSE nodes @@ (entry.Name :> NewNode(entry))

\* UpdateFrame counting a function once per stack: ParentCount and TotalCPU
\* are left alone when the name occurs again nearer to the leaf
UpdateFrameOncePerStack(st, stack, i, cpuTime, attr) ==
    LET entry == At(stack, i)
        nodes == GetOrCreate(st.nodes, entry)
        seen == \E j \in (i + 1)..(Len(stack) - 1) : At(stack, j).Name = entry.Name
        counted == IF seen THEN nodes[entry.Name] ELSE AddTotal(nodes[entry.Name], cpuTime)
        node == AddChild(AddAttr(AddSelf(counted, stack, i, cpuTime),
                                 stack, i, cpuTime, attr),
                         nodes, stack, i)
    IN  [nodes |-> [nodes EXCEPT ![entry.Name] = node],
         asked |-> st.asked \cup AskedAt(stack, i, attr)]

\* the body of the loop of updateFunctionNodes at 0-based index i;
\* st is [nodes, asked]
UpdateFrame(st, stack, i, cpuTime, attr) ==
    LET entry == At(stack, i)
        nodes == GetOrCreate(st.nodes, entry)
        node == AddChild(AddAttr(AddSelf(AddTotal(nodes[entry.Name], cpuTime),
                                         stack, i, cpuTime),
                                 stack, i, cpuTime, attr),
                         nodes, stack, i)
    IN  [nodes |-> [nodes EXCEPT ![entry.Name] = node],
         asked |-> st.asked \cup AskedAt(stack, i, attr)]

\* the loop of updateFunctionNodes: i runs from len(stack)-1 down to 0
RECURSIVE UpdateFrom(_, _, _, _, _)
UpdateFrom(st, stack, i, cpuTime, attr) ==
    IF i < 0 THEN st
    ELSE UpdateFrom(UpdateFrame(st, stack, i, cpuTime, attr), stack, i - 1, cpuTime, attr)

\* UpdateFrom with i running from 0 up to len(stack)-1: the caller before its callee
RECURSIVE UpdateUpFrom(_, _, _, _, _)
UpdateUpFrom(st, stack, i, cpuTime, attr) ==
    IF i >= Len(stack) THEN st
    ELSE UpdateUpFrom(UpdateFrame(st, stack, i, cpuTime, attr), stack, i + 1, cpuTime, attr)

updateFunctionNodesRootFirst(st, stack, cpuTime, attr) ==
    UpdateUpFrom(st, stack, 0, cpuTime, attr)

updateFunctionNodes(st, stack, cpuTime, attr) ==
    UpdateFrom(st, stack, Len(stack) - 1, cpuTime, attr)

\* IsCPUType without strings.ToLower
IsCPUTypeCaseSensitive(p, st) == Contains(At(p.StringTable, st.Type), sCpu)

\* typeName := p.StringTable[st.Type]; strings.Contains(strings.ToLower(typeName), "cpu")
IsCPUType(p, st) == Contains(ToLower(At(p.StringTable, st.Type)), sCpu)

\* FindCPUFrom without the break: the last matching sample type wins
RECURSIVE FindCPUNoBreak(_, _)
FindCPUNoBreak(p, i) ==
    IF i >= Len(p.SampleType) THEN [panics |-> FALSE, cpuIdx |-> 0 - 1]
    ELSE IF ~InRange(p.StringTable, At(p.SampleType, i).Type)
         THEN [panics |-> TRUE, cpuIdx |-> 0 - 1]
    ELSE LET rest == FindCPUNoBreak(p, i + 1)
         IN  IF rest.panics \/ rest.cpuIdx # 0 - 1 THEN rest
             ELSE IF IsCPUType(p, At(p.SampleType, i))
                  THEN [panics |-> FALSE, cpuIdx |-> i]
                  ELSE rest

\* the loop that finds the CPU sample type, from 0-based index i: cpuIdx is the
\* index of the first type whose lower-cased label contains "cpu" and -1 when
\* there is none; panics when p.StringTable[st.Type] is out of range before
\* one is found
RECURSIVE FindCPUFrom(_, _)
FindCPUFrom(p, i) ==
    IF i >= Len(p.SampleType) THEN [panics |-> FALSE, cpuIdx |-> 0 - 1]
    ELSE IF ~InRange(p.StringTable, At(p.SampleType, i).Type)
         THEN [panics |-> TRUE, cpuIdx |-> 0 - 1]
    ELSE IF IsCPUType(p, At(p.SampleType, i)) THEN [panics |-> FALSE, cpuIdx |-> i]
    ELSE FindCPUFrom(p, i + 1)

\* the loop that calculates the total CPU time, from 0-based index i
RECURSIVE TotalFrom(_, _, _, _)
TotalFrom(p, col, i, total) ==
    IF i >= Len(p.Sample) THEN total
    ELSE TotalFrom(p, col, i + 1,
                   IF Len(At(p.Sample, i).Value) > col
                   THEN WrapAdd(total, At(At(p.Sample, i).Value, col))
                   ELSE total)

\* CpuTime without the factor 100: a fraction, not a percentage
CpuTimeFraction(value, total) == Rat(value, total)

\* float64(sample.Value[cpuIdx]) / float64(totalCPU) * 100
CpuTime(value, total) == RMulInt(Rat(value, total), 100)

ErrNilProfile == "nil profile"
ErrNoCPUSamples == "no CPU samples found in profile"
ErrNoCPUTime == "no CPU time recorded in profile"

Returned(nodes, err) == [nodes |-> nodes, err |-> err]
NotReturned == [nodes |-> Nil, err |-> "not returned"]

----------------------------------------------------------------------------
(* AnalyzeCPUProfile, statement by statement *)

\* if p == nil { return nil, error }; funcInfoMap := buildFunctionInfoMap(p)
Start ==
    /\ pc = "start"
    /\ IF profile = Nil
       THEN /\ pc' = "done"
            /\ ret' = Returned(Nil, ErrNilProfile)
            /\ UNCHANGED funcInfoMap
       ELSE IF buildFunctionInfoMapPanics(Deref(profile))
       THEN /\ pc' = "panic"
            /\ UNCHANGED <<ret, funcInfoMap>>
       ELSE /\ pc' = "findcpu"
            /\ funcInfoMap' = buildFunctionInfoMap(Deref(profile))
            /\ UNCHANGED ret
    /\ UNCHANGED <<profile, attrCPU, cpuIdx, totalCPU, idx, functionNodes,
                   asked, times, calls, prev>>

\* the search of the CPU sample type, and the return when there is none
FindCPU ==
    /\ pc = "findcpu"
    /\ LET found == FindCPUFrom(Deref(profile), 0)
       IN  IF found.panics
           THEN /\ pc' = "panic"
                /\ UNCHANGED <<cpuIdx, ret>>
           ELSE IF found.cpuIdx = 0 - 1
           THEN /\ pc' = "done"
                /\ cpuIdx' = found.cpuIdx
                /\ ret' = Returned(Nil, ErrNoCPUSamples)
           ELSE /\ pc' = "total"
                /\ cpuIdx' = found.cpuIdx
                /\ UNCHANGED ret
    /\ UNCHANGED <<profile, attrCPU, funcInfoMap, totalCPU, idx, functionNodes,
                   asked, times, calls, prev>>

\* the total CPU time, the return when it is zero, functionNodes := make(...)
SumTotal ==
    /\ pc = "total"
    /\ totalCPU' = TotalFrom(Deref(profile), cpuIdx, 0, 0)
    /\ IF totalCPU' = 0
       THEN /\ pc' = "done"
            /\ ret' = Returned(Nil, ErrNoCPUTime)
       ELSE /\ pc' = "samples"
            /\ UNCHANGED ret
    /\ UNCHANGED <<profile, attrCPU, funcInfoMap, cpuIdx, idx, functionNodes,
                   asked, times, calls, prev>>

\* one iteration of the loop over p.Sample
ProcessSample ==
    /\ pc = "samples"
    /\ idx < Len(Deref(profile).Sample)
    /\ idx' = idx + 1
    /\ LET sample == At(Deref(profile).Sample, idx)
       IN  IF Len(sample.Value) <= cpuIdx
           THEN UNCHANGED <<functionNodes, asked, times, calls, prev>>
           ELSE LET cpuTime == CpuTime(At(sample.Value, cpuIdx), totalCPU)
                    stack == BuildStack(Deref(profile), funcInfoMap, sample.LocationId)
                    st == updateFunctionNodes([nodes |-> functionNodes, asked |-> asked],
                                              stack, cpuTime, attrCPU)
                IN  /\ times' = Append(times, cpuTime)
                    /\ IF Len(stack) > 0
                       THEN /\ functionNodes' = st.nodes
                            /\ asked' = st.asked
                            /\ calls' = Append(calls, [stack |-> stack, cpuTime |-> cpuTime])
                            /\ prev' = functionNodes
                       ELSE UNCHANGED <<functionNodes, asked, calls, prev>>
    /\ UNCHANGED <<profile, attrCPU, pc, funcInfoMap, cpuIdx, totalCPU, ret>>

\* return functionNodes, nil
Return ==
    /\ pc = "samples"
    /\ idx >= Len(Deref(profile).Sample)
    /\ pc' = "done"
    /\ ret' = Returned(Ref(functionNodes), NoErr)
    /\ UNCHANGED <<profile, attrCPU, funcInfoMap, cpuIdx, totalCPU, idx,
                   functionNodes, asked, times, calls, prev>>

Next == Start \/ FindCPU \/ SumTotal \/ ProcessSample \/ Return

----------------------------------------------------------------------------
(* The profiles AnalyzeCPUProfile is called with *)

\* call stacks over main, foo and runtime.new, with the columns of the test
StackLocationIds == {1, 2, 4}
StackValues == {0 - 1, 2}
StackSamples ==
    {Sample(l, <<1, v>>) : l \in SeqUpTo(StackLocationIds, MaxStack), v \in StackValues}
StackProfiles ==
    {Profile(TestSampleType, s, BaseFunction) : s \in SeqUpTo(StackSamples, MaxSamples)}

\* sample types: samples/nanoseconds, samples/cpu, cpu/nanoseconds,
\* CPU-time/nanoseconds, and a type index that is out of range
ColumnTypes ==
    {ValueType(1, 3), ValueType(1, 2), ValueType(2, 3), ValueType(7, 3),
     ValueType(TooLarge, 3)}
ColumnValues == {0, 1}
ColumnSamples ==
    {Sample(<<2, 1>>, v) : v \in SeqUpTo(ColumnValues, MaxCols)}
ColumnProfiles ==
    {Profile(t, s, BaseFunction) :
        t \in SeqUpTo(ColumnTypes, MaxCols), s \in SeqUpTo(ColumnSamples, MaxSamples)}

\* location ids that resolve (1, 8, 9) and that do not (5, 6, 7, DanglingId),
\* followed by a sample of bar; functions with a negative index or without
ResolveLocationIds == {1, 5, 6, 7, 8, 9, DanglingId}
ResolveFunctions ==
    {BaseFunction, Append(BaseFunction, NegNameFunction),
     Append(BaseFunction, NegFileFunction)}
ResolveProfiles ==
    {Profile(TestSampleType, <<Sample(l, <<1, 3>>), Sample(<<3>>, <<1, 1>>)>>, f) :
        l \in SeqUpTo(ResolveLocationIds, MaxStack), f \in ResolveFunctions}

\* values whose sum overflows int64
Big == Pow2(IntBits - 2)
OverflowSamples ==
    {Sample(<<4, 1>>, <<1, Big>>), Sample(<<1>>, <<1, Big>>),
     Sample(<<1>>, <<1, 0 - Big>>), Sample(<<1>>, <<1, MinInt>>)}
OverflowProfiles ==
    {Profile(TestSampleType, s, BaseFunction) : s \in SeqUpTo(OverflowSamples, MaxSamples)}

\* call stacks over the two functions named main, of different files
FileLocationIds == {1, 8}
FileSamples == {Sample(l, <<1, 1>>) : l \in SeqUpTo(FileLocationIds, MaxStack)}
FileProfiles ==
    {Profile(TestSampleType, s, BaseFunction) : s \in SeqUpTo(FileSamples, MaxSamples)}

Profiles ==
    StackProfiles \cup ColumnProfiles \cup ResolveProfiles \cup OverflowProfiles
        \cup FileProfiles \cup {TestProfile}

Init ==
    /\ profile \in {Nil} \cup {Ref(p) : p \in Profiles}
    /\ attrCPU \in BOOLEAN
    /\ pc = "start"
    /\ funcInfoMap = <<>>
    /\ cpuIdx = 0 - 1
    /\ totalCPU = 0
    /\ idx = 0
    /\ functionNodes = <<>>
    /\ ret = NotReturned
    /\ asked = {}
    /\ times = <<>>
    /\ calls = <<>>
    /\ prev = <<>>

Spec == Init /\ [][Next]_vars

----------------------------------------------------------------------------
(* Type correctness *)

IsRat(x) == x.num \in Int /\ x.den \in Nat \ {0} /\ GCD(Abs(x.num), x.den) = 1

TypeOK ==
    /\ pc \in {"start", "findcpu", "total", "samples", "done", "panic"}
    /\ attrCPU \in BOOLEAN
    /\ totalCPU \in MinInt..MaxInt
    /\ \A n \in DOMAIN functionNodes :
        /\ functionNodes[n].Name = n
        /\ IsRat(functionNodes[n].SelfCPU)
        /\ IsRat(functionNodes[n].SelfAttrCPU)
        /\ IsRat(functionNodes[n].TotalCPU)
        /\ functionNodes[n].ParentCount \in Nat \ {0}

----------------------------------------------------------------------------
(* Vocabulary of the properties *)

Returns == pc = "done"
Succeeds == pc = "done" /\ ret.err = NoErr

MinOf(S) == CHOOSE x \in S : \A y \in S : x <= y

\* the label contains "cpu" in any mix of cases, letter by letter
LabelHasCpu(s) ==
    \E k \in 1..(Len(s) - 2) :
        /\ s[k] \in {"c", "C"}
        /\ s[k + 1] \in {"p", "P"}
        /\ s[k + 2] \in {"u", "U"}

\* the 0-based indices of the sample types whose type label contains "cpu"
CpuColumns(p) ==
    {i \in 0..(Len(p.SampleType) - 1) :
        /\ InRange(p.StringTable, At(p.SampleType, i).Type)
        /\ LabelHasCpu(At(p.StringTable, At(p.SampleType, i).Type))}

\* the 0-based indices of the samples that have a value at column c
WithValue(p, c) == {i \in 0..(Len(p.Sample) - 1) : Len(At(p.Sample, i).Value) > c}

\* the sum of f[i] over the finite set S of integers
RECURSIVE SumOver(_, _)
SumOver(S, f) ==
    IF S = {} THEN 0
    ELSE LET x == MinOf(S) IN f[x] + SumOver(S \ {x}, f)

\* the sum of column c over all samples, as an integer
ColumnSum(p, c) ==
    SumOver(WithValue(p, c), [i \in WithValue(p, c) |-> At(At(p.Sample, i).Value, c)])

\* an integer as the int64 of the same residue
AsInt64(x) == ((x + Pow2(IntBits - 1)) % Pow2(IntBits)) - Pow2(IntBits - 1)

\* no index into the string table is out of range where the code trusts it
TypeIndicesInRange(p) ==
    \A i \in 0..(Len(p.SampleType) - 1) : InRange(p.StringTable, At(p.SampleType, i).Type)
NoNegativeIndex(p) ==
    \A k \in 1..Len(p.Function) : p.Function[k].Name >= 0 /\ p.Function[k].Filename >= 0

----------------------------------------------------------------------------
(* C1 *)

\* C1: AnalyzeCPUProfile returns a nil map and an error in exactly three cases,
\* decided in this order: the profile is nil; no sample type label contains
\* "cpu" in any case; the int64 sum of the first such column is zero.  The three
\* errors differ, every other call (type indices in range, no negative name
\* index) returns a non-nil map and a nil error, and a map is never returned
\* together with an error.
C1_ErrorCases ==
    /\ ErrNilProfile # ErrNoCPUSamples
    /\ ErrNilProfile # ErrNoCPUTime
    /\ ErrNoCPUSamples # ErrNoCPUTime
    /\ {ErrNilProfile, ErrNoCPUSamples, ErrNoCPUTime} \cap {NoErr} = {}
    /\ Returns => (ret.nodes = Nil <=> ret.err # NoErr)
    /\ profile = Nil =>
        /\ pc \in {"start", "done"}
        /\ Returns => ret = Returned(Nil, ErrNilProfile)
    /\ (profile # Nil /\ TypeIndicesInRange(Deref(profile)) /\ NoNegativeIndex(Deref(profile))) =>
        /\ pc # "panic"
        /\ Returns =>
            IF CpuColumns(Deref(profile)) = {}
            THEN ret = Returned(Nil, ErrNoCPUSamples)
            ELSE IF AsInt64(ColumnSum(Deref(profile), MinOf(CpuColumns(Deref(profile))))) = 0
            THEN ret = Returned(Nil, ErrNoCPUTime)
            ELSE ret.nodes # Nil /\ ret.err = NoErr

\* a call that found non-zero values in the CPU column, summing to zero
C1_Witness ==
    /\ Returns
    /\ ret = Returned(Nil, ErrNoCPUTime)
    /\ \E i \in WithValue(Deref(profile), cpuIdx) :
            At(At(Deref(profile).Sample, i).Value, cpuIdx) # 0

----------------------------------------------------------------------------
(* C2 *)

Sgn(x) == IF x < 0 THEN 0 - 1 ELSE IF x > 0 THEN 1 ELSE 0

\* the CPU value of the sample at 0-based index i
CpuValue(i) == At(At(Deref(profile).Sample, i).Value, cpuIdx)

\* every CPU value is zero or has the sign of totalCPU: no cpuTime is negative
NoNegativeTime ==
    \A i \in WithValue(Deref(profile), cpuIdx) : Sgn(CpuValue(i)) * Sgn(totalCPU) >= 0

\* C2 as stated: for any int64 values with a non-zero sum, every node has
\* SelfAttrCPU >= SelfCPU, and SelfAttrCPU = SelfCPU when attrCPU is false.
C2_AsStated ==
    \A n \in DOMAIN functionNodes :
        /\ RLeq(functionNodes[n].SelfCPU, functionNodes[n].SelfAttrCPU)
        /\ ~attrCPU => functionNodes[n].SelfAttrCPU = functionNodes[n].SelfCPU

\* C2, amended: when every CPU value is zero or has the sign of totalCPU (so
\* that no cpuTime is negative), every node has SelfAttrCPU >= SelfCPU; and for
\* any values, SelfAttrCPU = SelfCPU for every node when attrCPU is false.
C2_Monotonic ==
    \A n \in DOMAIN functionNodes :
        /\ NoNegativeTime => RLeq(functionNodes[n].SelfCPU, functionNodes[n].SelfAttrCPU)
        /\ ~attrCPU => functionNodes[n].SelfAttrCPU = functionNodes[n].SelfCPU

\* two samples were accumulated and a caller was attributed the time of its leaf
C2_Witness ==
    /\ Len(calls) = 2
    /\ attrCPU
    /\ NoNegativeTime
    /\ \E n \in DOMAIN functionNodes :
            RLess(functionNodes[n].SelfCPU, functionNodes[n].SelfAttrCPU)

----------------------------------------------------------------------------
(* One call of updateFunctionNodes: prev is the map before the latest call,   *)
(* functionNodes the map after it                                            *)

Called == calls # <<>>
LastStack == calls[Len(calls)].stack
LastTime == calls[Len(calls)].cpuTime
LastLen == Len(LastStack)
LastNames == {LastStack[j].Name : j \in 1..LastLen}
LeafName == LastStack[LastLen].Name

\* the number of frames of the stack that carry the name
Occurrences(stack, name) == Cardinality({j \in 1..Len(stack) : stack[j].Name = name})

\* a field of the node of that name before the latest call; a node that did
\* not exist counts as the zero-valued node
Before(name) ==
    IF name \in DOMAIN prev
    THEN prev[name]
    ELSE [SelfAttrCPU |-> Zero, SelfCPU |-> Zero, TotalCPU |-> Zero, ParentCount |-> 0]
After(name) == functionNodes[name]

----------------------------------------------------------------------------
(* C3 *)

\* C3: one call of updateFunctionNodes on a stack of weight w in which a name
\* occurs k >= 1 times raises that function's TotalCPU by k*w and its
\* ParentCount by k, and raises its SelfCPU by w if the last frame carries the
\* name and by nothing otherwise.
C3_Recursion ==
    Called =>
        \A name \in LastNames :
            LET k == Occurrences(LastStack, name)
            IN  /\ After(name).TotalCPU = RAdd(Before(name).TotalCPU, RMulInt(LastTime, k))
                /\ After(name).ParentCount = Before(name).ParentCount + k
                /\ After(name).SelfCPU =
                        RAdd(Before(name).SelfCPU, IF LeafName = name THEN LastTime ELSE Zero)

\* a stack of non-zero weight in which a function that has a node already
\* occurs twice without being the leaf
C3_Witness ==
    /\ Called
    /\ LastTime # Zero
    /\ \E name \in LastNames :
        /\ Occurrences(LastStack, name) = 2
        /\ name # LeafName
        /\ name \in DOMAIN prev

----------------------------------------------------------------------------
(* C4 *)

\* the location id resolves to a function name
Resolvable(p, id) ==
    /\ findLocation(p, id) # Nil
    /\ Len(Deref(findLocation(p, id)).Line) > 0
    /\ At(Deref(findLocation(p, id)).Line, 0).FunctionId \in DOMAIN funcInfoMap

\* the function name of a resolvable location id
NameOf(p, id) == funcInfoMap[At(Deref(findLocation(p, id)).Line, 0).FunctionId].Name

\* the function names of the sample at 0-based index i, all ids being resolvable
SampleNames(p, i) ==
    {NameOf(p, At(p.Sample, i).LocationId[j]) : j \in 1..Len(At(p.Sample, i).LocationId)}

\* every location id of every sample resolves, and no sample names a function twice
FullyResolvedNotRecursive(p) ==
    \A i \in WithValue(p, cpuIdx) :
        /\ \A j \in 1..Len(At(p.Sample, i).LocationId) :
                Resolvable(p, At(p.Sample, i).LocationId[j])
        /\ Cardinality(SampleNames(p, i)) = Len(At(p.Sample, i).LocationId)

\* 100 * (the sum of the CPU values of the samples in S) / totalCPU
Share(p, S) ==
    CpuTime(SumOver(S, [i \in S |-> At(At(p.Sample, i).Value, cpuIdx)]), totalCPU)

\* the samples that contain the function
Containing(p, name) == {i \in WithValue(p, cpuIdx) : name \in SampleNames(p, i)}

\* the samples whose first location id is the function's
FirstIs(p, name) ==
    {i \in Containing(p, name) : NameOf(p, At(p.Sample, i).LocationId[1]) = name}

TestCall == profile = Ref(TestProfile) /\ ~attrCPU /\ Succeeds
Result == Deref(ret.nodes)

----------------------------------------------------------------------------
(* C5 *)

\* the name of the frame next to the leaf, for a stack of two frames or more
ParentName == LastStack[LastLen - 1].Name

\* the latest call attributes: attrCPU, two frames or more, a core leaf
Attributing == Called /\ attrCPU /\ LastLen >= 2 /\ shouldAttrFn(LeafName)

\* C5 as stated: for every stack of two frames or more with a core leaf,
\* attrCPU being true, one call raises the leaf function's SelfAttrCPU and
\* SelfCPU by w each, and raises the SelfAttrCPU of the function next to the
\* leaf by w and leaves its SelfCPU unchanged, also when both frames carry the
\* same name.
C5_AsStated ==
    Attributing =>
        /\ After(LeafName).SelfAttrCPU = RAdd(Before(LeafName).SelfAttrCPU, LastTime)
        /\ After(LeafName).SelfCPU = RAdd(Before(LeafName).SelfCPU, LastTime)
        /\ After(ParentName).SelfAttrCPU = RAdd(Before(ParentName).SelfAttrCPU, LastTime)
        /\ After(ParentName).SelfCPU = Before(ParentName).SelfCPU

\* C5, amended: the same, for every such stack whose last two frames carry
\* different names; when they carry the same name, the call raises that
\* function's SelfAttrCPU by 2w and its SelfCPU by w.
C5_ParentOnly ==
    Attributing =>
        IF ParentName # LeafName
        THEN /\ After(LeafName).SelfAttrCPU = RAdd(Before(LeafName).SelfAttrCPU, LastTime)
             /\ After(LeafName).SelfCPU = RAdd(Before(LeafName).SelfCPU, LastTime)
             /\ After(ParentName).SelfAttrCPU = RAdd(Before(ParentName).SelfAttrCPU, LastTime)
             /\ After(ParentName).SelfCPU = Before(ParentName).SelfCPU
        ELSE /\ After(LeafName).SelfAttrCPU =
                    RAdd(Before(LeafName).SelfAttrCPU, RMulInt(LastTime, 2))
             /\ After(LeafName).SelfCPU = RAdd(Before(LeafName).SelfCPU, LastTime)

\* an attributing call of non-zero weight on nodes that exist already, the leaf
\* and the frame next to it carrying different names
C5_Witness ==
    /\ Attributing
    /\ LastTime # Zero
    /\ ParentName # LeafName
    /\ {ParentName, LeafName} \subseteq DOMAIN prev

----------------------------------------------------------------------------
(* C6 *)

\* x / k for an integer k > 0
RDivInt(x, k) ==
    LET g == GCD(Abs(x.num), k)
    IN  Rat(x.num \div g, x.den * (k \div g))

\* the sum of the rationals of a sequence
RECURSIVE RSum(_)
RSum(seq) == IF seq = <<>> THEN Zero ELSE RAdd(Head(seq), RSum(Tail(seq)))

\* the 0-based index of the k-th sample that has a CPU value
RECURSIVE NthWithValue(_, _)
NthWithValue(S, k) == IF k = 1 THEN MinOf(S) ELSE NthWithValue(S \ {MinOf(S)}, k - 1)

\* every sample that has a CPU value got a cpuTime t with t / 100 * totalCPU = value
TimesAreShares ==
    /\ Len(times) = Cardinality(WithValue(Deref(profile), cpuIdx))
    /\ \A k \in 1..Len(times) :
            RMulInt(RDivInt(times[k], 100), totalCPU) =
                RInt(CpuValue(NthWithValue(WithValue(Deref(profile), cpuIdx), k)))

InPercentRange(t) == RLeq(Zero, t) /\ RLeq(t, RInt(100))

\* the CPU values are all >= 0 or all <= 0, and their sum did not overflow
OneSignNoOverflow ==
    /\ \/ \A i \in WithValue(Deref(profile), cpuIdx) : CpuValue(i) >= 0
       \/ \A i \in WithValue(Deref(profile), cpuIdx) : CpuValue(i) <= 0
    /\ ColumnSum(Deref(profile), cpuIdx) = totalCPU

\* C6 as stated: for every combination of int64 values with a non-zero sum,
\* each sample that has a CPU value gets cpuTime = value / totalCPU * 100 with
\* 0 <= cpuTime <= 100, and these cpuTime sum to exactly 100.
C6_AsStated ==
    Succeeds =>
        /\ TimesAreShares
        /\ \A k \in 1..Len(times) : InPercentRange(times[k])
        /\ RSum(times) = RInt(100)

\* C6, amended: each sample that has a CPU value gets cpuTime = value /
\* totalCPU * 100; when the CPU values are all non-negative or all non-positive
\* and their sum does not overflow int64, 0 <= cpuTime <= 100 for each and the
\* cpuTime sum to exactly 100.
C6_Normalization ==
    Succeeds =>
        /\ TimesAreShares
        /\ OneSignNoOverflow =>
            /\ \A k \in 1..Len(times) : InPercentRange(times[k])
            /\ RSum(times) = RInt(100)

\* two samples of one sign share the total unevenly
C6_Witness ==
    /\ Succeeds
    /\ OneSignNoOverflow
    /\ Len(times) = 2
    /\ RLess(Zero, times[2])
    /\ RLess(times[2], times[1])

----------------------------------------------------------------------------
(* C7 *)

HasLocation(p, id) == \E k \in 1..Len(p.Location) : p.Location[k].Id = id
FirstLocation(p, id) ==
    p.Location[MinOf({k \in 1..Len(p.Location) : p.Location[k].Id = id})]
HasFunction(p, fid) == \E k \in 1..Len(p.Function) : p.Function[k].Id = fid
FunctionOf(p, fid) == p.Function[CHOOSE k \in 1..Len(p.Function) : p.Function[k].Id = fid]

\* the frame of the location id is dropped: no such location, no line, no such
\* function, or a name index outside the string table
Dropped(p, id) ==
    \/ ~HasLocation(p, id)
    \/ Len(FirstLocation(p, id).Line) = 0
    \/ ~HasFunction(p, FirstLocation(p, id).Line[1].FunctionId)
    \/ ~InRange(p.StringTable, FunctionOf(p, FirstLocation(p, id).Line[1].FunctionId).Name)

\* the frame of a location id that is not dropped
FrameOf(p, id) ==
    LET fn == FunctionOf(p, FirstLocation(p, id).Line[1].FunctionId)
    IN  [Name |-> At(p.StringTable, fn.Name),
         FileName |-> IF InRange(p.StringTable, fn.Filename)
                      THEN At(p.StringTable, fn.Filename) ELSE sEmpty]

Reverse(seq) == [j \in 1..Len(seq) |-> seq[Len(seq) + 1 - j]]

\* the frames of the sample that are kept, root first
KeptFrames(p, i) ==
    LET ids == SelectSeq(Reverse(At(p.Sample, i).LocationId), LAMBDA id : ~Dropped(p, id))
    IN  [j \in 1..Len(ids) |-> FrameOf(p, ids[j])]

\* the calls of updateFunctionNodes that the samples from 0-based index i on
\* are to make, the weights being column c and their total being total: one
\* per sample that has a value in column c and a kept frame
RECURSIVE KeptCalls(_, _, _, _)
KeptCalls(p, c, total, i) ==
    IF i >= Len(p.Sample) THEN <<>>
    ELSE IF Len(At(p.Sample, i).Value) > c /\ KeptFrames(p, i) # <<>>
    THEN <<[stack |-> KeptFrames(p, i),
            cpuTime |-> CpuTime(At(At(p.Sample, i).Value, c), total)]>>
            \o KeptCalls(p, c, total, i + 1)
    ELSE KeptCalls(p, c, total, i + 1)

\* C7 as stated: a frame is dropped, without a crash, when its location id
\* matches no Location, when the Location has no line, when the first line's
\* FunctionId matches no Function, or when the Function's name index is too
\* large or negative; the other frames of the sample are kept in order, root
\* first, and accumulated with the sample's cpuTime, and AnalyzeCPUProfile
\* returns a mapping and a nil error.
C7_AsStated ==
    (profile # Nil /\ TypeIndicesInRange(Deref(profile))) =>
        /\ pc # "panic"
        /\ (Returns /\ cpuIdx >= 0 /\ totalCPU # 0) =>
            /\ ret.err = NoErr
            /\ ret.nodes # Nil
            /\ calls = KeptCalls(Deref(profile), cpuIdx, totalCPU, 0)

----------------------------------------------------------------------------
(* C8 *)

\* the first sample type whose type label contains "cpu"
FirstCpuColumn(p) == MinOf(CpuColumns(p))

\* the node map that a sequence of calls of updateFunctionNodes builds
RECURSIVE Accumulate(_, _, _)
Accumulate(nodes, callSeq, attr) ==
    IF callSeq = <<>> THEN nodes
    ELSE Accumulate(updateFunctionNodes([nodes |-> nodes, asked |-> {}], Head(callSeq).stack,
                                        Head(callSeq).cpuTime, attr).nodes,
                    Tail(callSeq), attr)

\* C8: cpuIdx is the smallest index of a sample type whose type label (not its
\* unit label) contains "cpu" in any case; totalCPU is the int64 sum of that
\* column over the samples that have a value there, and the returned nodes are
\* those that the values of that column alone give: no other column, and no
\* sample without a value in that column, contributes.
C8_Column ==
    /\ (pc \in {"total", "samples"} \/ Succeeds) =>
        /\ CpuColumns(Deref(profile)) # {}
        /\ cpuIdx = FirstCpuColumn(Deref(profile))
    /\ (pc = "samples" \/ Succeeds) =>
        totalCPU = AsInt64(ColumnSum(Deref(profile), FirstCpuColumn(Deref(profile))))
    /\ Succeeds =>
        Result =
            Accumulate(<<>>,
                       KeptCalls(Deref(profile), FirstCpuColumn(Deref(profile)),
                                 AsInt64(ColumnSum(Deref(profile),
                                                   FirstCpuColumn(Deref(profile)))), 0),
                       attrCPU)

\* both sample types are CPU types, a sample has different values in the two
\* columns, another sample has no value in the first column, and nodes result
C8_Witness ==
    /\ Succeeds
    /\ CpuColumns(Deref(profile)) = {0, 1}
    /\ \E i \in WithValue(Deref(profile), 1) :
            At(At(Deref(profile).Sample, i).Value, 0) # At(At(Deref(profile).Sample, i).Value, 1)
    /\ \E i \in 0..(Len(Deref(profile).Sample) - 1) : i \notin WithValue(Deref(profile), 0)
    /\ Result # <<>>

----------------------------------------------------------------------------
(* C9 *)

\* every occurrence of the name in every accumulated stack is the last frame
AlwaysLeaf(name) ==
    \A k \in 1..Len(calls) :
        \A j \in 1..Len(calls[k].stack) :
            calls[k].stack[j].Name = name => j = Len(calls[k].stack)

\* C9: when no cpuTime is negative every node has SelfCPU <= TotalCPU; a
\* function whose every occurrence in every accumulated stack is the last
\* frame has SelfCPU = TotalCPU and no child.
C9_LeafEquivalence ==
    \A n \in DOMAIN functionNodes :
        /\ NoNegativeTime => RLeq(functionNodes[n].SelfCPU, functionNodes[n].TotalCPU)
        /\ AlwaysLeaf(n) =>
            /\ functionNodes[n].SelfCPU = functionNodes[n].TotalCPU
            /\ functionNodes[n].Children = <<>>

\* a function was the leaf of two stacks of positive weight, and its caller
\* has less self time than total time
C9_Witness ==
    /\ Len(calls) = 2
    /\ NoNegativeTime
    /\ \E n \in DOMAIN functionNodes :
        /\ AlwaysLeaf(n)
        /\ functionNodes[n].ParentCount = 2
        /\ RLess(Zero, functionNodes[n].SelfCPU)
    /\ \E n \in DOMAIN functionNodes :
        /\ ~AlwaysLeaf(n)
        /\ RLess(functionNodes[n].SelfCPU, functionNodes[n].TotalCPU)

----------------------------------------------------------------------------
(* C10 *)

\* the names whose SelfAttrCPU the latest call may change
MayChangeSelfAttr ==
    {LeafName} \cup
        (IF LastLen >= 2 /\ attrCPU /\ shouldAttrFn(LeafName) THEN {ParentName} ELSE {})

\* the leaf names of the accumulated stacks of two frames or more
LeavesWithCaller ==
    {calls[k].stack[Len(calls[k].stack)].Name :
        k \in {j \in 1..Len(calls) : Len(calls[j].stack) >= 2}}

\* C10: in one call of updateFunctionNodes on a stack of n frames, SelfAttrCPU
\* changes for the node of the leaf only and, when n >= 2, attrCPU is true and
\* the leaf is a core function, for the node of stack[n-2]; SelfCPU changes for
\* the node of the leaf only; the nodes of names that the stack does not hold
\* are left alone; shouldAttrFn is called with leaf names only, and not at all
\* when attrCPU is false.
C10_Gated ==
    /\ Called =>
        /\ \A name \in DOMAIN functionNodes :
            /\ After(name).SelfAttrCPU # Before(name).SelfAttrCPU => name \in MayChangeSelfAttr
            /\ After(name).SelfCPU # Before(name).SelfCPU => name = LeafName
            /\ name \notin LastNames => name \in DOMAIN prev /\ After(name) = prev[name]
        /\ DOMAIN functionNodes = DOMAIN prev \cup LastNames
    /\ asked = IF attrCPU THEN LeavesWithCaller ELSE {}

\* a stack of three frames of non-zero weight is attributed: the root is
\* neither the leaf nor its caller, and gets TotalCPU only
C10_Witness ==
    /\ Called
    /\ attrCPU
    /\ LastLen = 3
    /\ shouldAttrFn(LeafName)
    /\ LastTime # Zero
    /\ LastStack[1].Name \notin {ParentName, LeafName}
    /\ After(LastStack[1].Name).SelfAttrCPU = Before(LastStack[1].Name).SelfAttrCPU
    /\ After(LastStack[1].Name).TotalCPU # Before(LastStack[1].Name).TotalCPU
    /\ After(ParentName).SelfAttrCPU # Before(ParentName).SelfAttrCPU

----------------------------------------------------------------------------
(* C11 *)

\* the names of the frames that updateFunctionNodes was called with
FrameNames ==
    UNION {{calls[k].stack[j].Name : j \in 1..Len(calls[k].stack)} : k \in 1..Len(calls)}

\* the stack has a frame named p immediately followed, root first, by a frame named c
Adjacent(stack, p, c) ==
    \E j \in 1..(Len(stack) - 1) : stack[j].Name = p /\ stack[j + 1].Name = c

\* some processed stack has p immediately followed by c
Observed(p, c) == \E k \in 1..Len(calls) : Adjacent(calls[k].stack, p, c)

ChildNames(nodes, p) == DOMAIN nodes[p].Children

\* C11: after any sequence of updateFunctionNodes calls, for every node p and
\* every name c in p.Children, c is a key of the mapping and p.Children[c] is
\* the same non-nil node as nodes[c]; c is in p.Children if and only if some
\* processed stack has a frame named p immediately followed, root first, by a
\* frame named c; registering an existing child again changes nothing, and
\* nodes and child entries are never removed.
C11_Children ==
    /\ \A p \in DOMAIN functionNodes :
        /\ ChildNames(functionNodes, p) \subseteq FrameNames
        /\ \A c \in ChildNames(functionNodes, p) :
            /\ c \in DOMAIN functionNodes
            /\ functionNodes[p].Children[c] # Nil
            /\ functionNodes[p].Children[c] = NodeRef(functionNodes, c)
    /\ DOMAIN functionNodes = FrameNames
    /\ \A p \in FrameNames : \A c \in FrameNames :
        Observed(p, c) <=> (p \in DOMAIN functionNodes /\ c \in ChildNames(functionNodes, p))
    /\ \A p \in DOMAIN prev :
        /\ p \in DOMAIN functionNodes
        /\ \A c \in ChildNames(prev, p) :
            /\ c \in ChildNames(functionNodes, p)
            /\ functionNodes[p].Children[c] = prev[p].Children[c]

\* a caller with two callees, one of them registered by two calls
C11_Witness ==
    /\ Succeeds
    /\ Len(calls) = 2
    /\ \E p \in DOMAIN functionNodes : \E c \in ChildNames(functionNodes, p) :
        /\ Adjacent(calls[1].stack, p, c)
        /\ Adjacent(calls[2].stack, p, c)
        /\ c \in ChildNames(prev, p)
        /\ Cardinality(ChildNames(functionNodes, p)) >= 2

----------------------------------------------------------------------------
(* C12 *)

MaxOf(S) == CHOOSE x \in S : \A y \in S : y <= x

\* the calls of updateFunctionNodes that the samples of the profile are to
\* make, in input order
Resolutions == KeptCalls(Deref(profile), cpuIdx, totalCPU, 0)

\* the positions of the frames of the stack that carry the name
FramesNamed(stack, name) == {j \in 1..Len(stack) : stack[j].Name = name}

\* the stack of the first sample, in input order, that has a frame of the name
FirstStackWith(name) ==
    Resolutions[MinOf({k \in 1..Len(Resolutions) :
                         FramesNamed(Resolutions[k].stack, name) # {}})].stack

\* the frame of the name nearest to the root, and nearest to the leaf, in the
\* first stack that has one
RootmostFrame(name) ==
    FirstStackWith(name)[MinOf(FramesNamed(FirstStackWith(name), name))]
LeafmostFrame(name) ==
    FirstStackWith(name)[MaxOf(FramesNamed(FirstStackWith(name), name))]

\* a call of updateFunctionNodes changes neither Name nor FileName of a node
\* that existed before it
NeverOverwritten ==
    \A n \in DOMAIN prev :
        /\ n \in DOMAIN functionNodes
        /\ functionNodes[n].Name = prev[n].Name
        /\ functionNodes[n].FileName = prev[n].FileName

\* C12 as stated: a node's FileName is the file name of the first resolution
\* of that function name, samples taken in input order and the frames of one
\* stack taken from root (index 0) to leaf (index n-1); no later resolution
\* overwrites it, and Name never changes after creation.
C12_AsStated ==
    /\ NeverOverwritten
    /\ Succeeds =>
        \A n \in DOMAIN functionNodes :
            /\ functionNodes[n].Name = n
            /\ functionNodes[n].FileName = RootmostFrame(n).FileName

\* C12, amended: a node's FileName is the file name of the first resolution
\* of that function name, samples taken in input order and the frames of one
\* stack taken from leaf (index n-1) to root (index 0); no later resolution
\* overwrites it, and Name never changes after creation.
C12_FirstWins ==
    /\ NeverOverwritten
    /\ Succeeds =>
        \A n \in DOMAIN functionNodes :
            /\ functionNodes[n].Name = n
            /\ functionNodes[n].FileName = LeafmostFrame(n).FileName

\* main is resolved with util.go by the leaf of the first stack and with
\* another file name by a frame nearer to the root and by a later sample
C12_Witness ==
    /\ Succeeds
    /\ Len(calls) = 2
    /\ sMain \in DOMAIN functionNodes
    /\ functionNodes[sMain].FileName = sUtilGo
    /\ RootmostFrame(sMain).FileName # sUtilGo
    /\ \E j \in FramesNamed(calls[2].stack, sMain) : calls[2].stack[j].FileName # sUtilGo

----------------------------------------------------------------------------
(* C13 *)

\* the sum of f[x] over the finite set S, f[x] being rationals
RECURSIVE RSumOver(_, _)
RSumOver(S, f) ==
    IF S = {} THEN Zero
    ELSE LET x == CHOOSE y \in S : TRUE IN RAdd(f[x], RSumOver(S \ {x}, f))

\* the sums of SelfCPU and of SelfAttrCPU over all nodes of the mapping
SelfSum ==
    RSumOver(DOMAIN functionNodes, [n \in DOMAIN functionNodes |-> functionNodes[n].SelfCPU])
SelfAttrSum ==
    RSumOver(DOMAIN functionNodes,
             [n \in DOMAIN functionNodes |-> functionNodes[n].SelfAttrCPU])

\* the 0-based indices of the samples that have a CPU value and whose resolved
\* stack is not empty, and of those whose resolved stack is empty
KeptSamples ==
    {i \in WithValue(Deref(profile), cpuIdx) : KeptFrames(Deref(profile), i) # <<>>}
SkippedSamples == WithValue(Deref(profile), cpuIdx) \ KeptSamples

\* the sum of cpuTime over the samples whose resolved stack is not empty:
\* 100 * (the sum of their CPU values) / totalCPU
KeptAmount ==
    RMulInt(Rat(SumOver(KeptSamples, [i \in KeptSamples |-> CpuValue(i)]), totalCPU), 100)

NonNegativeValues == \A i \in WithValue(Deref(profile), cpuIdx) : CpuValue(i) >= 0

\* the int64 sum of the CPU column is the sum of its values
NoOverflow == ColumnSum(Deref(profile), cpuIdx) = totalCPU

\* the statements of C13 about the returned mapping
Conservation ==
    /\ SelfSum = KeptAmount
    /\ SkippedSamples = {} => SelfSum = RInt(100)
    /\ (\E i \in SkippedSamples : CpuValue(i) > 0) => RLess(SelfSum, RInt(100))
    /\ RLeq(SelfAttrSum, RMulInt(KeptAmount, 2))

\* C13 as stated: when AnalyzeCPUProfile succeeds on non-negative values, the
\* sum of SelfCPU over all nodes equals the sum of cpuTime over the samples
\* whose resolved stack is non-empty; it is exactly 100 when every sample with
\* a CPU value resolves at least one frame, and strictly less than 100 as soon
\* as a sample with a positive value resolves to an empty stack; the sum of
\* SelfAttrCPU over all nodes is at most twice that amount.
C13_AsStated == (Succeeds /\ NonNegativeValues) => Conservation

\* C13, amended: the same, when the values are non-negative and their int64
\* sum does not overflow; and for any values the sum of SelfCPU over all nodes
\* equals the sum of cpuTime over the samples whose resolved stack is non-empty.
C13_Conservation ==
    Succeeds =>
        /\ SelfSum = KeptAmount
        /\ (NonNegativeValues /\ NoOverflow) => Conservation

\* a sample with a positive value is skipped and another one is kept
C13_Witness ==
    /\ Succeeds
    /\ NonNegativeValues
    /\ NoOverflow
    /\ \E i \in SkippedSamples : CpuValue(i) > 0
    /\ KeptSamples # {}
    /\ RLess(Zero, SelfSum)
    /\ RLess(SelfSum, RInt(100))

============================================================================
